---- MODULE Spec2Model ----
(***************************************************************************)
(* Fetch-normalize-cache pipeline of the stock analysis engine:            *)
(*   analysis_engine.polygon.get_data.get_data_from_polygon                *)
(*   analysis_engine.alpaca.extract_df_from_redis.extract_dataset          *)
(*   analysis_engine.polygon.fetch_api fetch_tickers, fetch_daily,         *)
(*       fetch_minute, fetch_news and the provider clients (FetchSpec)     *)
(*   the kind registries of polygon.consts and alpaca.consts (RegistrySpec)*)
(*   analysis_engine.alpaca.fetch_api fetch_minute (FetchSpec)             *)
(*   two concurrent calls of get_data_from_polygon (ConcSpec)              *)
(*                                                                         *)
(* Python dictionaries are functions from key strings to values, objects   *)
(* live in a heap indexed by object name so that aliasing is visible, and  *)
(* f-strings are string concatenations.                                    *)
(***************************************************************************)
EXTENDS Integers, Sequences, FiniteSets, TLC

(***************************************************************************)
(* Bounds of the model.                                                    *)
(***************************************************************************)
\* largest number of rows a provider response carries
MaxRows == 2
\* largest number of tickers the provider lists
MaxCount == 5
\* largest page size the provider answers with
MaxPerPage == 2

(***************************************************************************)
(* analysis_engine/polygon/consts.py                                       *)
(***************************************************************************)
polygon_FETCH_DAILY == 700
polygon_FETCH_MINUTE == 701
polygon_FETCH_QUOTE == 702
polygon_FETCH_NEWS == 703
polygon_FETCH_FINANCIALS == 704
polygon_FETCH_DIVIDENDS == 705
polygon_FETCH_COMPANY == 706
polygon_FETCH_TICKERS == 707

polygon_DATAFEED_DAILY == 700
polygon_DATAFEED_MINUTE == 701
polygon_DATAFEED_QUOTE == 702
polygon_DATAFEED_NEWS == 703
polygon_DATAFEED_FINANCIALS == 704
polygon_DATAFEED_DIVIDENDS == 705
polygon_DATAFEED_COMPANY == 706
polygon_DATAFEED_TICKERS == 707

(***************************************************************************)
(* Python values.  None prints as "None" in an f-string; the values of     *)
(* ft_type are tagged because the code accepts an int code or a string.    *)
(***************************************************************************)
None == "None"
PyInt(n) == [int |-> n]
PyStr(s) == [str |-> s]
PyNone == [none |-> TRUE]
IsInt(v) == "int" \in DOMAIN v
IsStr(v) == "str" \in DOMAIN v

\* str(v)
Str(v) == IF IsInt(v) THEN ToString(v.int) ELSE IF IsStr(v) THEN v.str ELSE "None"

\* one character of s.lower()
LowerChar(c) ==
    CASE c = "A" -> "a" [] c = "B" -> "b" [] c = "C" -> "c" [] c = "D" -> "d"
      [] c = "E" -> "e" [] c = "F" -> "f" [] c = "G" -> "g" [] c = "H" -> "h"
      [] c = "I" -> "i" [] c = "J" -> "j" [] c = "K" -> "k" [] c = "L" -> "l"
      [] c = "M" -> "m" [] c = "N" -> "n" [] c = "O" -> "o" [] c = "P" -> "p"
      [] c = "Q" -> "q" [] c = "R" -> "r" [] c = "S" -> "s" [] c = "T" -> "t"
      [] c = "U" -> "u" [] c = "V" -> "v" [] c = "W" -> "w" [] c = "X" -> "x"
      [] c = "Y" -> "y" [] c = "Z" -> "z" [] OTHER -> c

RECURSIVE LowerFrom(_, _)
LowerFrom(s, i) ==
    IF i > Len(s) THEN ""
    ELSE LowerChar(SubSeq(s, i, i)) \o LowerFrom(s, i + 1)

\* a conversion that forgets to lower the string
LowerAsGiven(s) == s

\* s.lower()
Lower(s) == LowerFrom(s, 1)

\* `if v:` for a string or None
Truthy(v) == v # None /\ v # ""

\* d.get(k, default)
Get(d, k, default) == IF k \in DOMAIN d THEN d[k] ELSE default

\* d[k] = v
Put(d, k, v) == [x \in (DOMAIN d) \cup {k} |-> IF x = k THEN v ELSE d[x]]

\* s ends with suffix
EndsWith(s, suffix) ==
    /\ Len(s) >= Len(suffix)
    /\ SubSeq(s, Len(s) - Len(suffix) + 1, Len(s)) = suffix

\* the exceptions of the model; all of them derive from Exception
Exceptions == {"AttributeError", "NotImplementedError", "ValueError",
               "KeyError", "ProviderError", "PublishError"}

(***************************************************************************)
(* polygon/consts.py: the registry's string conversions                    *)
(***************************************************************************)
Unsupported == "unsupported"

polygon_get_ft_str(ft_type) ==
    LET ft_str == Lower(Str(ft_type)) IN
    IF (IsInt(ft_type) /\ ft_type.int = polygon_FETCH_DAILY) \/ ft_str = "daily" THEN "daily"
    ELSE IF (IsInt(ft_type) /\ ft_type.int = polygon_FETCH_MINUTE) \/ ft_str = "minute" THEN "minute"
    ELSE IF (IsInt(ft_type) /\ ft_type.int = polygon_FETCH_QUOTE) \/ ft_str = "quote" THEN "quote"
    ELSE IF (IsInt(ft_type) /\ ft_type.int = polygon_FETCH_NEWS) \/ ft_str = "news" THEN "news"
    ELSE IF (IsInt(ft_type) /\ ft_type.int = polygon_FETCH_FINANCIALS) \/ ft_str = "financials" THEN "financials"
    ELSE IF (IsInt(ft_type) /\ ft_type.int = polygon_FETCH_DIVIDENDS) \/ ft_str = "dividends" THEN "dividends"
    ELSE IF (IsInt(ft_type) /\ ft_type.int = polygon_FETCH_COMPANY) \/ ft_str = "company" THEN "company"
    ELSE IF (IsInt(ft_type) /\ ft_type.int = polygon_FETCH_TICKERS) \/ ft_str = "tickers" THEN "tickers"
    ELSE Unsupported \o " ft_type=" \o Str(ft_type)

polygon_get_datafeed_str(df_type) ==
    IF df_type = polygon_DATAFEED_DAILY THEN "daily"
    ELSE IF df_type = polygon_DATAFEED_MINUTE THEN "minute"
    ELSE IF df_type = polygon_DATAFEED_QUOTE THEN "quote"
    ELSE IF df_type = polygon_DATAFEED_NEWS THEN "news"
    ELSE IF df_type = polygon_DATAFEED_FINANCIALS THEN "financials"
    ELSE IF df_type = polygon_DATAFEED_DIVIDENDS THEN "dividends"
    ELSE IF df_type = polygon_DATAFEED_COMPANY THEN "company"
    ELSE IF df_type = polygon_DATAFEED_TICKERS THEN "tickers"
    ELSE Unsupported \o " df_type=" \o ToString(df_type)

(***************************************************************************)
(* Collaborators of get_data_from_polygon that the orchestrator only       *)
(* calls: the request builders, the result builder, the fetch dispatcher   *)
(* and the publisher.                                                      *)
(***************************************************************************)
\* ae_consts.TICKER, the default ticker
TICKER == "SPY"

\* the status codes of ae_consts, by name
NOT_RUN == "NOT_RUN"
SUCCESS == "SUCCESS"
ERR == "ERR"
EMPTY == "EMPTY"

\* api_requests.build_polygon_fetch_<kind>_request(label): a fresh request
\* dictionary that carries the cache and storage key fields
build_polygon_fetch_request(kind, label) ==
    [x \in {"ft_type", "ticker", "s3_bucket", "s3_key", "redis_key", "label"} |->
        CASE x = "ft_type" -> kind
          [] x = "ticker" -> TICKER
          [] x = "s3_bucket" -> "polygon"
          [] x = "s3_key" -> TICKER \o "_now"
          [] x = "redis_key" -> TICKER \o "_now"
          [] x = "label" -> label]

\* build_result.build_result(status, err, rec)
build_result(status, err) == [status |-> status, err |-> err]

\* a provider response: the HTTP status, the number of rows it carries and
\* whether the rows carry the temporal field of the dataset; an answer other
\* than 200 carries no table
Responses ==
    {r \in [code : {200, 404}, rows : 0..MaxRows, temporal : BOOLEAN] :
        r.code = 200 \/ (r.rows = 0 /\ ~r.temporal)}

\* polygon.fetch_data.fetch_data: the provider client fails on a non-200
\* status, otherwise the decoded rows come back as a table
fetch_data(resp) ==
    IF resp.code # 200
    THEN [raised |-> TRUE, exc |-> "ProviderError", rows |-> 0]
    ELSE [raised |-> FALSE, exc |-> "none", rows |-> resp.rows]

\* DataFrame.to_json(orient='records') of a table of n rows
RECURSIVE JsonRows(_)
JsonRows(n) ==
    IF n = 0 THEN ""
    ELSE IF n = 1 THEN "{row1}"
    ELSE JsonRows(n - 1) \o ",{row" \o ToString(n) \o "}"

to_json(n) == "[" \o JsonRows(n) \o "]"

\* datetime.datetime.strptime(date_string, format): the format's literal
\* characters must match the data; a mismatch raises ValueError
TICK_FORMAT == "%Y-%m-%d %H:%M:%S"
Timestamps == {"2019-01-02 09:30:00"}
strptime_ok(date_string, format) ==
    IF format = TICK_FORMAT
    THEN date_string \in Timestamps
    ELSE date_string = format

(***************************************************************************)
(* State                                                                   *)
(***************************************************************************)
VARIABLES
    pc,         \* position of the running call: "idle", a step, "done"/"x_done"
    heap,       \* object name -> dictionary: "wd" the caller's request,
                \* "req" polygon_req / extract's req, "up" upload_and_cache_req
    work_dict,  \* the work_dict argument: a heap name, or NoRef for None
    entry,      \* the caller's dictionary as it was at entry
    loc,        \* the locals of the running call
    rec,        \* rec = {'data', 'updated'}
    res,        \* res = {'status', 'err', 'rec': rec}
    exc,        \* the exception in flight, "none" when there is none
    escaped,    \* an exception left the call
    fetched,    \* outcome of the provider call: "none", "raised", "ok", "skipped"
    rows,       \* rows of the fetched table
    pubCalls,   \* the request dictionaries handed to the publisher, in order
    pubFailed,  \* the publisher raised
    events,     \* what the call did, in order
    returned,   \* the values returned to the caller by this call, in order
    xout,       \* what extract_dataset returned
    prev        \* inputs and derived keys of the previous extract_dataset call;
                \* with two calls in progress, the frame of the suspended one

vars == <<pc, heap, work_dict, entry, loc, rec, res, exc, escaped, fetched,
          rows, pubCalls, pubFailed, events, returned, xout, prev>>

NoRef == "NoRef"
NoLocals == [op |-> "none"]
NoPrev == [set |-> FALSE]
NoOut == [called |-> FALSE]
EmptyDict == <<>>

(***************************************************************************)
(* Inputs: the request dictionaries a caller may pass                      *)
(***************************************************************************)
Fields == {"daily", "news"}
Dates == {"2019-01-02", "2019-01-03"}
BackfillDates == {"2019-01-02"}
FtTypes == {PyInt(polygon_FETCH_DAILY), PyInt(polygon_FETCH_NEWS),
            PyInt(polygon_FETCH_TICKERS), PyStr("Daily"), PyStr("news"),
            PyStr("bogus"), PyStr("700")}
\* the caller's base keys, '{ticker}_{date}'
BaseKeys == {"AAPL_2019-01-03"}

Optional(k, values) == {EmptyDict} \cup {k :> v : v \in values}

WorkDicts ==
    {t @@ f @@ ft @@ b @@ rk @@ sk @@ fr :
        t \in Optional("ticker", {"AAPL"}),
        f \in Optional("field", Fields),
        ft \in Optional("ft_type", FtTypes),
        b \in Optional("backfill_date", BackfillDates),
        rk \in Optional("redis_key", BaseKeys),
        sk \in Optional("s3_key", BaseKeys),
        fr \in Optional("from", Timestamps)}

(***************************************************************************)
(* get_data_from_polygon, step by step                                     *)
(***************************************************************************)
Init ==
    /\ pc = "idle"
    /\ heap = EmptyDict
    /\ work_dict = NoRef
    /\ entry = EmptyDict
    /\ loc = NoLocals
    /\ rec = [data |-> None, updated |-> None]
    /\ res = [status |-> NOT_RUN, err |-> None]
    /\ exc = "none"
    /\ escaped = FALSE
    /\ fetched = "none"
    /\ rows = 0
    /\ pubCalls = <<>>
    /\ pubFailed = FALSE
    /\ events = <<>>
    /\ returned = <<>>
    /\ xout = NoOut
    /\ prev = NoPrev

CanCall == pc = "idle"

\* the i-th name an object made under `base` can take
ObjectName(base, i) == IF i = 1 THEN base ELSE base \o "#" \o ToString(i)

\* one object per name, shared by every call, as a module-level dictionary is
Reuse(h, base) == base

\* a dictionary made inside a call (a request builder's result, a deep
\* copy) is a new object: a name no live object of heap h has
Fresh(h, base) ==
    ObjectName(base, CHOOSE i \in 1..(Cardinality(DOMAIN h) + 1) :
                         /\ ObjectName(base, i) \notin DOMAIN h
                         /\ \A j \in 1..(i - 1) : ObjectName(base, j) \in DOMAIN h)

\* a handler that names one exception class instead of Exception
OuterCatchesNotImplementedOnly(e) == e = "NotImplementedError"

\* `except Exception as e` around the whole body
OuterCatches(e) == e \in Exceptions

\* a provider call without a handler of its own
InnerCatchesNothing(e) == FALSE

\* `except Exception as f` around the provider call
InnerCatches(e) == e \in Exceptions

\* a publish call without a handler
PublishCatchesNothing(e) == FALSE

\* `except Exception` around the publish call
PublishCatches(e) == e \in Exceptions

\* an exception raised in the body of the outer try
Raise(e) ==
    /\ exc' = e
    /\ IF OuterCatches(e)
       THEN pc' = "except" /\ escaped' = FALSE
       ELSE pc' = "done" /\ escaped' = TRUE

\* the call: label, rec and res are set up, status NOT_RUN
Call(isNone, d) ==
    /\ CanCall
    /\ pc' = "validate"
    /\ heap' = (IF isNone THEN EmptyDict ELSE "wd" :> d)
    /\ work_dict' = (IF isNone THEN NoRef ELSE "wd")
    /\ entry' = d
    /\ loc' = [op |-> "get_data_from_polygon", label |-> "get_data_from_polygon"]
    /\ rec' = [data |-> None, updated |-> None]
    /\ res' = [status |-> NOT_RUN, err |-> None]
    /\ exc' = "none"
    /\ escaped' = FALSE
    /\ fetched' = "none"
    /\ rows' = 0
    /\ pubCalls' = <<>>
    /\ pubFailed' = FALSE
    /\ events' = <<>>
    /\ returned' = <<>>
    /\ xout' = NoOut
    /\ prev' = NoPrev

\* a chain whose else branch falls back to the daily request
DispatchKindElseDaily(ft_type) ==
    LET ft_str == Lower(Str(ft_type)) IN
    IF (IsInt(ft_type) /\ ft_type.int = polygon_FETCH_MINUTE) \/ ft_str = "minute" THEN "minute"
    ELSE IF (IsInt(ft_type) /\ ft_type.int = polygon_FETCH_QUOTE) \/ ft_str = "quote" THEN "quote"
    ELSE IF (IsInt(ft_type) /\ ft_type.int = polygon_FETCH_NEWS) \/ ft_str = "news" THEN "news"
    ELSE IF (IsInt(ft_type) /\ ft_type.int = polygon_FETCH_FINANCIALS) \/ ft_str = "financials" THEN "financials"
    ELSE IF (IsInt(ft_type) /\ ft_type.int = polygon_FETCH_DIVIDENDS) \/ ft_str = "dividends" THEN "dividends"
    ELSE IF (IsInt(ft_type) /\ ft_type.int = polygon_FETCH_COMPANY) \/ ft_str = "company" THEN "company"
    ELSE "daily"

\* the if/elif chain over ft_type: the kind whose request is built, or
\* Unsupported where the code raises NotImplementedError
DispatchKind(ft_type) ==
    LET ft_str == Lower(Str(ft_type)) IN
    IF (IsInt(ft_type) /\ ft_type.int = polygon_FETCH_DAILY) \/ ft_str = "daily" THEN "daily"
    ELSE IF (IsInt(ft_type) /\ ft_type.int = polygon_FETCH_MINUTE) \/ ft_str = "minute" THEN "minute"
    ELSE IF (IsInt(ft_type) /\ ft_type.int = polygon_FETCH_QUOTE) \/ ft_str = "quote" THEN "quote"
    ELSE IF (IsInt(ft_type) /\ ft_type.int = polygon_FETCH_NEWS) \/ ft_str = "news" THEN "news"
    ELSE IF (IsInt(ft_type) /\ ft_type.int = polygon_FETCH_FINANCIALS) \/ ft_str = "financials" THEN "financials"
    ELSE IF (IsInt(ft_type) /\ ft_type.int = polygon_FETCH_DIVIDENDS) \/ ft_str = "dividends" THEN "dividends"
    ELSE IF (IsInt(ft_type) /\ ft_type.int = polygon_FETCH_COMPANY) \/ ft_str = "company" THEN "company"
    ELSE Unsupported

\* lines 57-99: read the arguments and pick the request builder
Validate ==
    /\ pc = "validate"
    /\ events' = Append(events, "validate")
    /\ IF work_dict = NoRef
       THEN /\ Raise("AttributeError")
            /\ UNCHANGED <<heap, loc>>
       ELSE LET wd == heap[work_dict]
                ft_type == Get(wd, "ft_type", PyNone)
                label == Get(wd, "label", loc.label)
                kind == DispatchKind(ft_type)
                polygon_req == Fresh(heap, "req")
            IN /\ loc' = [op |-> loc.op,
                          polygon_req |-> IF kind = Unsupported THEN None
                                          ELSE polygon_req,
                          ticker |-> Get(wd, "ticker", TICKER),
                          field |-> Get(wd, "field", "daily"),
                          ft_type |-> ft_type,
                          label |-> label,
                          backfill_date |-> Get(wd, "backfill_date", None),
                          kind |-> kind]
               /\ IF kind = Unsupported
                  THEN /\ Raise("NotImplementedError")
                       /\ UNCHANGED heap
                  ELSE /\ heap' = (polygon_req :> build_polygon_fetch_request(kind, label))
                                        @@ heap
                       /\ pc' = "clone"
                       /\ UNCHANGED <<exc, escaped>>
    /\ UNCHANGED <<work_dict, entry, rec, res, fetched, rows, pubCalls,
                   pubFailed, returned, xout, prev>>

clone_keys == <<"ticker", "s3_address", "s3_bucket", "s3_key",
                "redis_address", "redis_db", "redis_password", "redis_key">>

\* the clone loop over the first n clone keys
RECURSIVE CloneLoop(_, _, _, _)
CloneLoop(req, wd, label, n) ==
    IF n = 0 THEN req
    ELSE LET r == CloneLoop(req, wd, label, n - 1)
             k == clone_keys[n]
         IN IF k \in DOMAIN r
            THEN Put(r, k, Get(wd, k, k \o "-missing-in-" \o label))
            ELSE r

\* lines 102-135: the ticker and the cloned keys are written on
\* polygon_req; an empty request ends the call with ERR
CloneKeys ==
    /\ pc = "clone"
    /\ LET req == CloneLoop(Put(heap[loc.polygon_req], "ticker", loc.ticker),
                            heap[work_dict], loc.label, Len(clone_keys))
       IN /\ heap' = [heap EXCEPT ![loc.polygon_req] = req]
          /\ IF DOMAIN req = {}
             THEN /\ res' = build_result(ERR, loc.label \o " - ticker=" \o loc.ticker
                                              \o " did not build an Polygon request")
                  /\ pc' = "return"
             ELSE /\ pc' = "prepare"
                  /\ UNCHANGED res
    /\ UNCHANGED <<work_dict, entry, loc, rec, exc, escaped, fetched,
                   rows, pubCalls, pubFailed, events, returned, xout, prev>>

\* f'{ticker}_{backfill_date}_{field}'
BackfillKey(ticker, backfill_date, field) ==
    ticker \o "_" \o backfill_date \o "_" \o field

\* lines 138-155: inside the inner try, before the provider call
PrepareFetch ==
    /\ pc = "prepare"
    /\ LET wd == heap[work_dict]
           from_ok == "from" \in DOMAIN wd => strptime_ok(TICK_FORMAT, wd["from"])
           r0 == heap[loc.polygon_req]
           r1 == IF "from" \in DOMAIN wd THEN Put(r0, "from", wd["from"]) ELSE r0
           key == BackfillKey(loc.ticker, loc.backfill_date, loc.field)
           r2 == IF Truthy(loc.backfill_date)
                 THEN Put(Put(Put(r1, "backfill_date", loc.backfill_date),
                              "redis_key", key), "s3_key", key)
                 ELSE r1
       IN IF from_ok
          THEN /\ heap' = [heap EXCEPT ![loc.polygon_req] = r2]
               /\ pc' = "fetch"
               /\ UNCHANGED <<fetched, exc, escaped>>
          ELSE \* strptime raised: the inner handler logs, the call goes on
               /\ IF InnerCatches("ValueError")
                  THEN pc' = "upload" /\ UNCHANGED <<exc, escaped>>
                  ELSE Raise("ValueError")
               /\ fetched' = "skipped"
               /\ UNCHANGED heap
    /\ UNCHANGED <<work_dict, entry, loc, rec, res, rows, pubCalls,
                   pubFailed, events, returned, xout, prev>>

\* lines 157-171: the provider call and the serialization of its table
FetchData(resp) ==
    /\ pc = "fetch"
    /\ events' = Append(events, "fetch")
    /\ LET out == fetch_data(resp)
       IN IF out.raised
          THEN /\ fetched' = "raised"
               /\ IF InnerCatches(out.exc)
                  THEN pc' = "upload" /\ UNCHANGED <<exc, escaped>>
                  ELSE Raise(out.exc)
               /\ UNCHANGED <<rec, rows>>
          ELSE /\ fetched' = "ok"
               /\ rows' = out.rows
               /\ rec' = [data |-> to_json(out.rows), updated |-> "utcnow"]
               /\ pc' = "upload"
               /\ UNCHANGED <<exc, escaped>>
    \* the shape of the answer, kept for the record
    /\ loc' = loc @@ [temporal |-> resp.temporal]
    /\ UNCHANGED <<heap, work_dict, entry, res, pubCalls, pubFailed,
                   returned, xout, prev>>

\* copy.deepcopy(polygon_req): the object the upload request lives in
upload_deepcopy(src, fresh) == fresh

\* the storage name of a field: news is stored as news1
use_field(field) == IF field = "news" THEN "news1" ELSE field

\* lines 190-201: the key of the upload request for key field k
UploadKey(k, wd, polygon_req) ==
    LET base == IF Truthy(loc.backfill_date)
                THEN loc.ticker \o "_" \o loc.backfill_date
                ELSE Get(wd, k, polygon_req[k])
    IN base \o "_" \o use_field(loc.field)

\* lines 173-201: the upload request is a deep copy of polygon_req with the
\* payload and the storage keys written on it
BuildUpload ==
    /\ pc = "upload"
    /\ LET wd == heap[work_dict]
           req == heap[loc.polygon_req]
           target == upload_deepcopy(loc.polygon_req, Fresh(heap, "up"))
           data == IF Truthy(rec.data) THEN rec.data ELSE "{}"
           u0 == Put(Put(req, "celery_disabled", "True"), "data", data)
           \* the default argument polygon_req[k] is evaluated before .get
           missing == \E k \in {"redis_key", "s3_key"} :
                          k \in DOMAIN wd /\ k \notin DOMAIN req
           u1 == IF "redis_key" \in DOMAIN wd
                 THEN Put(u0, "redis_key", UploadKey("redis_key", wd, req))
                 ELSE u0
           u2 == IF "s3_key" \in DOMAIN wd
                 THEN Put(u1, "s3_key", UploadKey("s3_key", wd, req))
                 ELSE u1
       IN IF missing
          THEN /\ Raise("KeyError")
               /\ UNCHANGED <<heap, loc>>
          ELSE /\ heap' = (target :> u2) @@ heap
               /\ loc' = loc @@ [upload_and_cache_req |-> target]
               /\ pc' = "publish"
               /\ UNCHANGED <<exc, escaped>>
    /\ UNCHANGED <<work_dict, entry, rec, res, fetched, rows, pubCalls,
                   pubFailed, events, returned, xout, prev>>

\* a publish call placed before the provider call: polygon_req is published
PublishBeforeFetch(fails) ==
    /\ pc = "fetch"
    /\ \A i \in 1..Len(events) : events[i] # "publish"
    /\ pubCalls' = Append(pubCalls, heap[loc.polygon_req])
    /\ events' = Append(events, "publish")
    /\ pubFailed' = fails
    /\ UNCHANGED <<pc, exc, escaped>>
    /\ UNCHANGED <<heap, work_dict, entry, loc, rec, res, fetched, rows,
                   returned, xout, prev>>

\* lines 203-220: the publish call; its failure is logged
Publish(fails) ==
    /\ pc = "publish"
    /\ LET up == heap[loc.upload_and_cache_req]
       IN /\ pubCalls' = Append(pubCalls, up)
          /\ events' = Append(events, "publish")
          /\ pubFailed' = fails
          /\ IF ~fails
             THEN pc' = "result" /\ UNCHANGED <<exc, escaped>>
             ELSE IF ~PublishCatches("PublishError")
             THEN Raise("PublishError")
             \* the handler's message reads both keys of the upload request
             ELSE IF {"s3_key", "redis_key"} \subseteq DOMAIN up
             THEN pc' = "result" /\ UNCHANGED <<exc, escaped>>
             ELSE Raise("KeyError")
    /\ UNCHANGED <<heap, work_dict, entry, loc, rec, res, fetched, rows,
                   returned, xout, prev>>

\* lines 222-231: the result of a body that ran to its end
BuildResult ==
    /\ pc = "result"
    /\ res' = build_result(SUCCESS, None)
    /\ pc' = "return"
    /\ UNCHANGED <<heap, work_dict, entry, loc, rec, exc, escaped, fetched,
                   rows, pubCalls, pubFailed, events, returned, xout, prev>>

\* a handler that logs the exception and builds no result
HandleExceptionLogsOnly ==
    /\ pc = "except"
    /\ exc' = "none"
    /\ pc' = "return"
    /\ UNCHANGED <<heap, work_dict, entry, loc, rec, res, escaped, fetched,
                   rows, pubCalls, pubFailed, events, returned, xout, prev>>

\* lines 233-239: the handler of the outer try
HandleException ==
    /\ pc = "except"
    /\ res' = build_result(ERR, "failed - get_data_from_polygon with ex=" \o exc)
    /\ exc' = "none"
    /\ pc' = "return"
    /\ UNCHANGED <<heap, work_dict, entry, loc, rec, escaped, fetched, rows,
                   pubCalls, pubFailed, events, returned, xout, prev>>

\* lines 242-248: return res
Return ==
    /\ pc = "return"
    /\ returned' = Append(returned, [status |-> res.status, err |-> res.err, rec |-> rec])
    /\ pc' = "done"
    /\ UNCHANGED <<heap, work_dict, entry, loc, rec, res, exc, escaped,
                   fetched, rows, pubCalls, pubFailed, events, xout, prev>>

(***************************************************************************)
(* analysis_engine/alpaca: the registry and extract_dataset                *)
(***************************************************************************)
alpaca_DATAFEED_DAILY == 900
alpaca_DATAFEED_MINUTE == 901
alpaca_DATAFEED_QUOTE == 902
alpaca_DATAFEED_STATS == 903
alpaca_DATAFEED_PEERS == 904
alpaca_DATAFEED_NEWS == 905
alpaca_DATAFEED_FINANCIALS == 906
alpaca_DATAFEED_EARNINGS == 907
alpaca_DATAFEED_DIVIDENDS == 908
alpaca_DATAFEED_COMPANY == 909

alpaca_FETCH_DAILY == 800
alpaca_FETCH_MINUTE == 801
alpaca_FETCH_QUOTE == 802
alpaca_FETCH_STATS == 803
alpaca_FETCH_PEERS == 804
alpaca_FETCH_NEWS == 805
alpaca_FETCH_FINANCIALS == 806
alpaca_FETCH_EARNINGS == 807
alpaca_FETCH_DIVIDENDS == 808
alpaca_FETCH_COMPANY == 809

alpaca_get_ft_str(ft_type) ==
    LET ft_str == Lower(Str(ft_type)) IN
    IF (IsInt(ft_type) /\ ft_type.int = alpaca_FETCH_DAILY) \/ ft_str = "daily" THEN "daily"
    ELSE IF (IsInt(ft_type) /\ ft_type.int = alpaca_FETCH_MINUTE) \/ ft_str = "minute" THEN "minute"
    ELSE IF (IsInt(ft_type) /\ ft_type.int = alpaca_FETCH_QUOTE) \/ ft_str = "quote" THEN "quote"
    ELSE IF (IsInt(ft_type) /\ ft_type.int = alpaca_FETCH_STATS) \/ ft_str = "stats" THEN "stats"
    ELSE IF (IsInt(ft_type) /\ ft_type.int = alpaca_FETCH_PEERS) \/ ft_str = "peers" THEN "peers"
    ELSE IF (IsInt(ft_type) /\ ft_type.int = alpaca_FETCH_NEWS) \/ ft_str = "news" THEN "news"
    ELSE IF (IsInt(ft_type) /\ ft_type.int = alpaca_FETCH_FINANCIALS) \/ ft_str = "financials" THEN "financials"
    ELSE IF (IsInt(ft_type) /\ ft_type.int = alpaca_FETCH_EARNINGS) \/ ft_str = "earnings" THEN "earnings"
    ELSE IF (IsInt(ft_type) /\ ft_type.int = alpaca_FETCH_DIVIDENDS) \/ ft_str = "dividends" THEN "dividends"
    ELSE IF (IsInt(ft_type) /\ ft_type.int = alpaca_FETCH_COMPANY) \/ ft_str = "company" THEN "company"
    ELSE Unsupported \o " ft_type=" \o Str(ft_type)

\* a registry that resolves against the other provider's table
alpaca_get_datafeed_str_polygon_table(df_type) == polygon_get_datafeed_str(df_type)

alpaca_get_datafeed_str(df_type) ==
    IF df_type = alpaca_DATAFEED_DAILY THEN "daily"
    ELSE IF df_type = alpaca_DATAFEED_MINUTE THEN "minute"
    ELSE IF df_type = alpaca_DATAFEED_QUOTE THEN "quote"
    ELSE IF df_type = alpaca_DATAFEED_STATS THEN "stats"
    ELSE IF df_type = alpaca_DATAFEED_PEERS THEN "peers"
    ELSE IF df_type = alpaca_DATAFEED_NEWS THEN "news"
    ELSE IF df_type = alpaca_DATAFEED_FINANCIALS THEN "financials"
    ELSE IF df_type = alpaca_DATAFEED_EARNINGS THEN "earnings"
    ELSE IF df_type = alpaca_DATAFEED_DIVIDENDS THEN "dividends"
    ELSE IF df_type = alpaca_DATAFEED_COMPANY THEN "company"
    ELSE Unsupported \o " df_type=" \o ToString(df_type)

\* the module-level table of supported extract keys
keys ==
    [company |-> alpaca_DATAFEED_COMPANY,
     daily |-> alpaca_DATAFEED_DAILY,
     dividends |-> alpaca_DATAFEED_DIVIDENDS,
     financials |-> alpaca_DATAFEED_FINANCIALS,
     minute |-> alpaca_DATAFEED_MINUTE,
     news |-> alpaca_DATAFEED_NEWS,
     quote |-> alpaca_DATAFEED_QUOTE]

\* api_requests.get_ds_dict(ticker): a fresh request dictionary
get_ds_dict(ticker) == [ticker |-> ticker, label |-> "ds"]

\* req = work_dict: an alias instead of a copy
extract_alias(src, fresh) == src

\* copy.deepcopy(work_dict): the object extract_dataset's req lives in
extract_deepcopy(src, fresh) == fresh

\* use_date without the default
extract_use_date_as_given(date, latest_close_date) == date

\* use_date: the date argument, or the latest close when there is none
extract_use_date(date, latest_close_date) ==
    IF ~Truthy(date) THEN latest_close_date ELSE date

\* f'{ticker}_{use_date}_{key}'
extract_redis_key(ticker, use_date, key) ==
    ticker \o "_" \o use_date \o "_" \o key

ExtractKeys == {"daily", "news", "news1", "bogus", ""}
ExtractDicts ==
    {t @@ rk @@ sk :
        t \in Optional("ticker", {"AAPL"}),
        rk \in Optional("redis_key", {"AAPL_old_daily"}),
        sk \in Optional("s3_key", {"AAPL_old_daily"})}

\* extract_dataset(key, ticker, date, work_dict), lines 317-356;
\* latest is what ae_utils.get_last_close_str() answers
extract_dataset(key, ticker, date, isNone, d, latest) ==
    /\ CanCall
    /\ pc' = "x_done"
    /\ work_dict' = (IF isNone THEN NoRef ELSE "wd")
    /\ entry' = d
    /\ LET heap0 == IF isNone THEN EmptyDict ELSE "wd" :> d
           given == ~isNone /\ DOMAIN d # {}
       IN IF key = "" \/ key \notin DOMAIN keys
          THEN /\ heap' = heap0
               /\ xout' = [called |-> TRUE, performed |-> FALSE]
               /\ loc' = [op |-> "extract_dataset", supported |-> FALSE, key |-> key]
          ELSE LET df_type == keys[key]
                   df_str == alpaca_get_datafeed_str(df_type)
                   use_ticker == IF given /\ ~Truthy(ticker)
                                 THEN Get(d, "ticker", None)
                                 ELSE ticker
                   heap1 == IF given THEN heap0
                            ELSE ("ds" :> get_ds_dict(use_ticker)) @@ heap0
                   src == IF given THEN "wd" ELSE "ds"
                   target == extract_deepcopy(src, "req")
                   use_date == extract_use_date(date, latest)
                   redis_key == extract_redis_key(use_ticker, use_date, key)
                   req == Put(Put(heap1[src], "redis_key", redis_key),
                              "s3_key", redis_key)
               IN /\ heap' = (target :> req) @@ heap1
                  /\ xout' = [called |-> TRUE, performed |-> TRUE,
                              df_type |-> df_type, df_str |-> df_str,
                              work_dict |-> target]
                  /\ loc' = [op |-> "extract_dataset", supported |-> TRUE,
                             ticker |-> use_ticker, date |-> date, key |-> key,
                             latest |-> latest]
    /\ UNCHANGED <<rec, res, exc, escaped, fetched, rows, pubCalls,
                   pubFailed, events, returned, prev>>

\* the wrappers extract_<kind>_dataset, lines 31-294, and the key each one
\* passes to extract_dataset
Wrappers == {"extract_daily_dataset", "extract_minute_dataset",
             "extract_quote_dataset", "extract_news_dataset",
             "extract_financials_dataset", "extract_dividends_dataset",
             "extract_company_dataset"}

wrapper_key(w) ==
    CASE w = "extract_daily_dataset" -> "daily"
      [] w = "extract_minute_dataset" -> "minute"
      [] w = "extract_quote_dataset" -> "quote"
      [] w = "extract_news_dataset" -> "news1"
      [] w = "extract_financials_dataset" -> "financials"
      [] w = "extract_dividends_dataset" -> "dividends"
      [] w = "extract_company_dataset" -> "company"

\* extract_<kind>_dataset(ticker, date, work_dict): returns what
\* extract_dataset returns for the wrapper's key
extract_wrapper(w, ticker, date, isNone, d, latest) ==
    extract_dataset(wrapper_key(w), ticker, date, isNone, d, latest)

\* the caller takes the outcome and goes on to its next request
CallerContinues ==
    /\ pc \in {"done", "x_done", "r_done", "f_done"}
    /\ pc' = "idle"
    /\ prev' = (IF pc = "x_done" /\ xout.performed
                THEN [set |-> TRUE,
                      in |-> <<loc.ticker, loc.date, loc.key, loc.latest>>,
                      redis_key |-> heap[xout.work_dict]["redis_key"],
                      s3_key |-> heap[xout.work_dict]["s3_key"]]
                ELSE NoPrev)
    /\ heap' = EmptyDict
    /\ work_dict' = NoRef
    /\ entry' = EmptyDict
    /\ loc' = NoLocals
    /\ rec' = [data |-> None, updated |-> None]
    /\ res' = [status |-> NOT_RUN, err |-> None]
    /\ exc' = "none"
    /\ escaped' = FALSE
    /\ fetched' = "none"
    /\ rows' = 0
    /\ pubCalls' = <<>>
    /\ pubFailed' = FALSE
    /\ events' = <<>>
    /\ returned' = <<>>
    /\ xout' = NoOut

PolygonNext ==
    \/ \E d \in WorkDicts : Call(FALSE, d)
    \/ Call(TRUE, EmptyDict)
    \/ Validate
    \/ CloneKeys
    \/ PrepareFetch
    \/ \E resp \in Responses : FetchData(resp)
    \/ BuildUpload
    \/ \E fails \in BOOLEAN : Publish(fails)
    \/ BuildResult
    \/ HandleException
    \/ Return

ExtractNext ==
    \/ \E key \in ExtractKeys, ticker \in {None, "SPY"}, date \in {None} \cup BackfillDates,
          d \in ExtractDicts, latest \in Dates :
            extract_dataset(key, ticker, date, FALSE, d, latest)
    \/ \E key \in ExtractKeys, ticker \in {None, "SPY"}, date \in {None} \cup BackfillDates,
          latest \in Dates :
            extract_dataset(key, ticker, date, TRUE, EmptyDict, latest)
    \/ \E w \in Wrappers, ticker \in {None, "SPY"}, d \in ExtractDicts :
            extract_wrapper(w, ticker, None, FALSE, d, "2019-01-03")

Next == PolygonNext \/ ExtractNext \/ CallerContinues

Spec == Init /\ [][Next]_vars

(***************************************************************************)
(* Properties                                                              *)
(***************************************************************************)
Done == pc = "done"
Result == returned[1]
Statuses == {NOT_RUN, SUCCESS, ERR, EMPTY}

\* C1: whatever the request dictionary (None included), the provider and
\* the publisher do, no exception leaves get_data_from_polygon and the call
\* returns one result carrying a status
C1_ReturnsResultNeverRaises ==
    /\ ~escaped
    /\ Done => (Len(returned) = 1 /\ Result.status \in Statuses)

C1_Witness ==
    /\ Done /\ work_dict = NoRef
    /\ Len(returned) = 1 /\ Result.status = ERR

\* C2: a request whose provider call failed ends with status ERR
C2_ProviderFailureIsErr ==
    (Done /\ fetched = "raised") => Result.status = ERR

\* the kinds the orchestrator serves, by code and by name
OrchestratorCodes ==
    {polygon_FETCH_DAILY, polygon_FETCH_MINUTE, polygon_FETCH_QUOTE,
     polygon_FETCH_NEWS, polygon_FETCH_FINANCIALS, polygon_FETCH_DIVIDENDS,
     polygon_FETCH_COMPANY}
OrchestratorNames ==
    {"daily", "minute", "quote", "news", "financials", "dividends", "company"}
KindSupported(ft_type) ==
    \/ IsInt(ft_type) /\ ft_type.int \in OrchestratorCodes
    \/ Lower(Str(ft_type)) \in OrchestratorNames
RequestedFtType == Get(entry, "ft_type", PyNone)

\* C3: a request for a kind the orchestrator does not serve ends with
\* status ERR and an error string
C3_UnsupportedKindIsErr ==
    (Done /\ work_dict # NoRef /\ ~KindSupported(RequestedFtType))
        => (Result.status = ERR /\ Result.err # None)

C3_Witness ==
    /\ Done /\ work_dict # NoRef
    /\ RequestedFtType = PyInt(polygon_FETCH_TICKERS)
    /\ Result.status = ERR /\ Result.err # None

\* C4: a provider response of zero rows ends with status EMPTY
C4_ZeroRowsIsEmpty ==
    (Done /\ fetched = "ok" /\ rows = 0) => Result.status = EMPTY

\* C5: a call starts with status NOT_RUN, a status once terminal is not
\* replaced while the call runs, and the call ends by returning exactly one
\* result whose status is terminal
C5_OneTerminalResult ==
    [][/\ (pc = "idle" /\ pc' = "validate") => res'.status = NOT_RUN
       /\ (res.status # NOT_RUN /\ pc' # "idle") => res'.status = res.status
       /\ (pc # "done" /\ pc' = "done")
            => (Len(returned') = 1 /\ returned'[1].status \in {SUCCESS, ERR})
       /\ (pc = "done" /\ pc' # "idle") => returned' = returned]_vars

C5_Witness ==
    Done /\ Len(returned) = 1 /\ Result.status = SUCCESS /\ fetched = "ok"

\* C6: after a successful fetch the call returns SUCCESS and rec.data holds
\* the serialized table, whether the publisher failed or not
C6_PublishFailureKeepsFetch ==
    (Done /\ fetched = "ok")
        => (Result.status = SUCCESS /\ Result.rec.data = to_json(rows))

C6_Witness ==
    /\ Done /\ fetched = "ok" /\ pubFailed /\ rows > 0
    /\ Result.status = SUCCESS /\ Result.rec.data = to_json(rows)

\* C7: the caller's request dictionary is at every moment what it was at
\* entry, in get_data_from_polygon and in extract_dataset
C7_CallerDictUnchanged ==
    work_dict # NoRef => heap[work_dict] = entry

C7_Witness ==
    /\ pc = "x_done" /\ xout.performed /\ xout.work_dict # work_dict
    /\ work_dict # NoRef /\ "redis_key" \in DOMAIN entry
    /\ heap[xout.work_dict]["redis_key"] # entry["redis_key"]
    /\ heap[work_dict] = entry

\* '{ticker}_{date}_{kindName}' for some date, news stored as news1
HasKeyForm(k, ticker, kind) ==
    \E date \in Dates :
        k = ticker \o "_" \o date \o "_" \o (IF kind = "news" THEN "news1" ELSE kind)

\* C8: the redis_key and the s3_key of every request handed to the
\* publisher have the form '{ticker}_{date}_{kindName}'
C8_PublishedKeyForm ==
    \A i \in 1..Len(pubCalls) :
        loc.field = loc.kind =>
            /\ HasKeyForm(pubCalls[i]["redis_key"], loc.ticker, loc.kind)
            /\ HasKeyForm(pubCalls[i]["s3_key"], loc.ticker, loc.kind)

\* the key extract_dataset is to derive from the running call's inputs
ExpectedExtractKey ==
    loc.ticker \o "_" \o (IF loc.date = None THEN loc.latest ELSE loc.date)
        \o "_" \o loc.key

\* C9: extract_dataset hands on redis_key = s3_key = '{ticker}_{date}_{key}',
\* the date being the latest close when none is given, and two calls with
\* the same (ticker, date, key, latest close) derive the same keys
C9_ExtractKeyDerivation ==
    (pc = "x_done" /\ xout.performed) =>
        LET req == heap[xout.work_dict] IN
        /\ req["redis_key"] = ExpectedExtractKey
        /\ req["s3_key"] = ExpectedExtractKey
        /\ (prev.set /\ prev.in = <<loc.ticker, loc.date, loc.key, loc.latest>>)
              => (prev.redis_key = req["redis_key"] /\ prev.s3_key = req["s3_key"])

C9_Witness ==
    /\ pc = "x_done" /\ xout.performed /\ loc.date = None
    /\ prev.set /\ prev.in = <<loc.ticker, loc.date, loc.key, loc.latest>>
    /\ heap[xout.work_dict]["redis_key"] = ExpectedExtractKey
    /\ work_dict # NoRef /\ "redis_key" \in DOMAIN entry

\* C10: for a news request the keys handed to the publisher end in news1
\* while the name shown for the kind stays news
C10_NewsStoredAsNews1 ==
    \A i \in 1..Len(pubCalls) :
        (loc.kind = "news" /\ loc.field = "news") =>
            /\ EndsWith(pubCalls[i]["redis_key"], "news1")
            /\ EndsWith(pubCalls[i]["s3_key"], "news1")
            /\ polygon_get_datafeed_str(polygon_DATAFEED_NEWS) = "news"

(***************************************************************************)
(* The kind registries of both providers as pure functions: each call      *)
(* applies one of get_ft_str / get_datafeed_str to one input               *)
(***************************************************************************)
\* one character of s.upper()
UpperChar(c) ==
    CASE c = "a" -> "A" [] c = "b" -> "B" [] c = "c" -> "C" [] c = "d" -> "D"
      [] c = "e" -> "E" [] c = "f" -> "F" [] c = "g" -> "G" [] c = "h" -> "H"
      [] c = "i" -> "I" [] c = "j" -> "J" [] c = "k" -> "K" [] c = "l" -> "L"
      [] c = "m" -> "M" [] c = "n" -> "N" [] c = "o" -> "O" [] c = "p" -> "P"
      [] c = "q" -> "Q" [] c = "r" -> "R" [] c = "s" -> "S" [] c = "t" -> "T"
      [] c = "u" -> "U" [] c = "v" -> "V" [] c = "w" -> "W" [] c = "x" -> "X"
      [] c = "y" -> "Y" [] c = "z" -> "Z" [] OTHER -> c

\* the name with the characters at odd (even) positions in upper case
RECURSIVE MixCase(_, _, _)
MixCase(s, i, odd) ==
    IF i > Len(s) THEN ""
    ELSE (IF (i % 2 = 1) = odd THEN UpperChar(SubSeq(s, i, i)) ELSE SubSeq(s, i, i))
            \o MixCase(s, i + 1, odd)

RECURSIVE Upper(_, _)
Upper(s, i) ==
    IF i > Len(s) THEN "" ELSE UpperChar(SubSeq(s, i, i)) \o Upper(s, i + 1)

\* a kind name in several letter cases
NameVariants(k) ==
    {k, Upper(k, 1), UpperChar(SubSeq(k, 1, 1)) \o SubSeq(k, 2, Len(k)),
     MixCase(k, 1, TRUE), MixCase(k, 1, FALSE)}

\* the kinds of each registry, name -> numeric code
PolygonFetchCodes ==
    [daily |-> polygon_FETCH_DAILY, minute |-> polygon_FETCH_MINUTE,
     quote |-> polygon_FETCH_QUOTE, news |-> polygon_FETCH_NEWS,
     financials |-> polygon_FETCH_FINANCIALS, dividends |-> polygon_FETCH_DIVIDENDS,
     company |-> polygon_FETCH_COMPANY, tickers |-> polygon_FETCH_TICKERS]
PolygonDatafeedCodes ==
    [daily |-> polygon_DATAFEED_DAILY, minute |-> polygon_DATAFEED_MINUTE,
     quote |-> polygon_DATAFEED_QUOTE, news |-> polygon_DATAFEED_NEWS,
     financials |-> polygon_DATAFEED_FINANCIALS, dividends |-> polygon_DATAFEED_DIVIDENDS,
     company |-> polygon_DATAFEED_COMPANY, tickers |-> polygon_DATAFEED_TICKERS]
AlpacaFetchCodes ==
    [daily |-> alpaca_FETCH_DAILY, minute |-> alpaca_FETCH_MINUTE,
     quote |-> alpaca_FETCH_QUOTE, stats |-> alpaca_FETCH_STATS,
     peers |-> alpaca_FETCH_PEERS, news |-> alpaca_FETCH_NEWS,
     financials |-> alpaca_FETCH_FINANCIALS, earnings |-> alpaca_FETCH_EARNINGS,
     dividends |-> alpaca_FETCH_DIVIDENDS, company |-> alpaca_FETCH_COMPANY]
AlpacaDatafeedCodes ==
    [daily |-> alpaca_DATAFEED_DAILY, minute |-> alpaca_DATAFEED_MINUTE,
     quote |-> alpaca_DATAFEED_QUOTE, stats |-> alpaca_DATAFEED_STATS,
     peers |-> alpaca_DATAFEED_PEERS, news |-> alpaca_DATAFEED_NEWS,
     financials |-> alpaca_DATAFEED_FINANCIALS, earnings |-> alpaca_DATAFEED_EARNINGS,
     dividends |-> alpaca_DATAFEED_DIVIDENDS, company |-> alpaca_DATAFEED_COMPANY]

RegistryFns == {"polygon.get_ft_str", "polygon.get_datafeed_str",
                "alpaca.get_ft_str", "alpaca.get_datafeed_str"}
IsFtStr(fn) == fn \in {"polygon.get_ft_str", "alpaca.get_ft_str"}
RegistryCodes(fn) ==
    CASE fn = "polygon.get_ft_str" -> PolygonFetchCodes
      [] fn = "polygon.get_datafeed_str" -> PolygonDatafeedCodes
      [] fn = "alpaca.get_ft_str" -> AlpacaFetchCodes
      [] fn = "alpaca.get_datafeed_str" -> AlpacaDatafeedCodes

\* the call fn(v); a string never equals a numeric code, so the datafeed
\* chains end in their else branch for it
Registry(fn, v) ==
    CASE fn = "polygon.get_ft_str" -> polygon_get_ft_str(v)
      [] fn = "alpaca.get_ft_str" -> alpaca_get_ft_str(v)
      [] fn = "polygon.get_datafeed_str" ->
            IF IsInt(v) THEN polygon_get_datafeed_str(v.int)
            ELSE Unsupported \o " df_type=" \o Str(v)
      [] fn = "alpaca.get_datafeed_str" ->
            IF IsInt(v) THEN alpaca_get_datafeed_str(v.int)
            ELSE Unsupported \o " df_type=" \o Str(v)

AllKindNames == DOMAIN PolygonFetchCodes \cup DOMAIN AlpacaFetchCodes
AllCodes ==
    {PolygonFetchCodes[k] : k \in DOMAIN PolygonFetchCodes}
        \cup {AlpacaFetchCodes[k] : k \in DOMAIN AlpacaFetchCodes}
        \cup {AlpacaDatafeedCodes[k] : k \in DOMAIN AlpacaDatafeedCodes}
OtherStrings == {"bogus", "700", "800", "900", "", "None", "dailys", "day"}

\* the inputs: a value and the kind name it was written from ("" for none)
RegistryInputs ==
    {[v |-> PyInt(c), name |-> ""] : c \in AllCodes \cup {0, 699, 708, 799, 810, 899, 910}}
        \cup UNION {{[v |-> PyStr(s), name |-> k] : s \in NameVariants(k)} :
                        k \in AllKindNames}
        \cup {[v |-> PyStr(s), name |-> ""] : s \in OtherStrings}
        \cup {[v |-> PyNone, name |-> ""]}

\* one registry call; a get_ft_str result is resolved a second time
ResolveKind(fn, in) ==
    /\ CanCall
    /\ pc' = "r_done"
    /\ LET out == Registry(fn, in.v)
       IN loc' = [op |-> fn, arg |-> in.v, name |-> in.name, out |-> out,
                  again |-> IF IsFtStr(fn) THEN Registry(fn, PyStr(out)) ELSE out]
    /\ UNCHANGED <<heap, work_dict, entry, rec, res, exc, escaped, fetched,
                   rows, pubCalls, pubFailed, events, returned, xout, prev>>

RegistryNext ==
    \/ \E fn \in RegistryFns, in \in RegistryInputs : ResolveKind(fn, in)
    \/ CallerContinues

RegistrySpec == Init /\ [][RegistryNext]_vars

Resolved == pc = "r_done"

\* the kind the input stands for in registry fn: the kind whose numeric code
\* it is, or (get_ft_str only) the kind whose name it spells; "" for none
KindOf(fn, v, name) ==
    LET codes == RegistryCodes(fn) IN
    IF IsInt(v)
    THEN IF \E k \in DOMAIN codes : codes[k] = v.int
         THEN CHOOSE k \in DOMAIN codes : codes[k] = v.int
         ELSE ""
    ELSE IF IsFtStr(fn) /\ name \in DOMAIN codes THEN name ELSE ""

\* C18: get_ft_str of either provider maps the numeric code of a supported
\* kind, and its name in any letter case, to the lower-case name of the
\* kind, and maps that result to itself
C18_FtStrCanonical ==
    (Resolved /\ IsFtStr(loc.op) /\ KindOf(loc.op, loc.arg, loc.name) # "")
        => /\ loc.out = KindOf(loc.op, loc.arg, loc.name)
           /\ loc.again = loc.out

C18_Witness ==
    /\ Resolved /\ loc.op = "alpaca.get_ft_str"
    /\ loc.arg = PyStr("EARNINGS") /\ loc.out = "earnings" /\ loc.again = "earnings"

\* C19: each of the four registry functions answers an input that is
\* neither a code nor a name of one of its kinds with a string that starts
\* with 'unsupported' and is no kind name
C19_UnknownKindRejected ==
    (Resolved /\ KindOf(loc.op, loc.arg, loc.name) = ""
              /\ ~(IsStr(loc.arg) /\ loc.name \in DOMAIN RegistryCodes(loc.op)))
        => /\ loc.out \notin AllKindNames
           /\ SubSeq(loc.out, 1, Len(Unsupported)) = Unsupported

C19_Witness ==
    /\ Resolved /\ loc.op = "alpaca.get_datafeed_str"
    /\ loc.arg = PyInt(polygon_DATAFEED_DAILY)
    /\ loc.out = "unsupported df_type=700"

(***************************************************************************)
(* The provider clients:                                                   *)
(*   analysis_engine/polygon/helpers_for_polygon_api.py get_from_polygon   *)
(*   analysis_engine/alpaca/helpers_for_alpaca_api.py get_from_alpaca,     *)
(*                                                    get_from_polygon     *)
(* A query_params value is tagged with its Python type: None, a dict (its  *)
(* keys in order), a str, or an object that takes attribute assignments    *)
(* and iterates as (name, value) pairs.                                    *)
(***************************************************************************)
QNone == [type |-> "NoneType"]
QDict(ks) == [type |-> "dict", keys |-> ks, page |-> 1]
QStr(str) == [type |-> "str", s |-> str]
QObj == [type |-> "obj", page |-> 0, locale |-> None]

\* fetch_tickers' own query_params dictionary
DefaultTickerParams == QDict(<<"sort", "market", "active", "perpage", "page">>)

\* query_params.<name> = value
setattr_ok(q) == q.type = "obj"

\* `for param_name, param_value in query_params`: "ok", or the exception
\* the loop header raises. Iterating a dict yields its keys and iterating
\* a str its characters; each is unpacked into two names
iterate_pairs(q) ==
    CASE q.type = "NoneType" -> "TypeError"
      [] q.type = "dict" ->
            IF \A i \in 1..Len(q.keys) : Len(q.keys[i]) = 2 THEN "ok" ELSE "ValueError"
      [] q.type = "str" -> IF q.s = "" THEN "ok" ELSE "ValueError"
      [] q.type = "obj" -> "ok"

\* the page the provider reads from the URL; page 1 when the URL names none
requested_page(q) == IF q.type = "obj" /\ q.page > 0 THEN q.page ELSE 1

\* f'... which sent response {resp.status_code} - {resp.text}'
failure_message(fn, resp) ==
    "Failed to get data with function=" \o fn \o " which sent response "
        \o ToString(resp.code) \o " - " \o resp.text

NoAnswer == [raised |-> FALSE, exc |-> "none", sent |-> FALSE, returns |-> FALSE,
             value |-> PyNone, message |-> ""]
Raises(e, sent, message) ==
    [NoAnswer EXCEPT !.raised = TRUE, !.exc = e, !.sent = sent, !.message = message]
Returns(v) == [NoAnswer EXCEPT !.sent = TRUE, !.returns = TRUE, !.value = v]

\* polygon get_from_polygon(url, token, query_params, verbose), lines 96-123
polygon_get_from_polygon(query_params, resp) ==
    IF iterate_pairs(query_params) # "ok"
    THEN Raises(iterate_pairs(query_params), FALSE, "")
    ELSE IF resp.code = 200
    THEN Returns(resp.json)
    ELSE Raises("Exception", TRUE, failure_message("get_from_polygon", resp))

\* alpaca get_from_alpaca(url, token, verbose), lines 83-109
alpaca_get_from_alpaca(resp) ==
    IF resp.code = 200
    THEN Returns(resp.json)
    ELSE Raises("Exception", TRUE, failure_message("get_from_alpaca", resp))

\* alpaca get_from_polygon(url, token, verbose), lines 125-150: the return
\* sits inside `if verbose:` and the raise inside the branch of status 200
alpaca_get_from_polygon(resp, verbose) ==
    IF resp.code = 200
    THEN IF verbose
         THEN Returns(resp.json)
         ELSE Raises("Exception", TRUE, failure_message("get_from_polygon", resp))
    ELSE Returns(PyNone)

ClientFns == {"polygon.get_from_polygon", "alpaca.get_from_alpaca",
              "alpaca.get_from_polygon"}
IsClient(fn) == fn \in ClientFns

\* what the provider answers: status, body text, decoded body
HttpCodes == {200, 404, 500}
HttpResponses ==
    {[code |-> c, text |-> t, json |-> [body |-> t]] :
        c \in HttpCodes, t \in {"", "Not Found", "{rows}"}}

ClientParams == {QNone, QDict(<<>>), QDict(<<"qa">>), DefaultTickerParams,
                 QStr("us"), QObj}

\* an exception leaves the running function: none of them has a handler
Escape(e) ==
    /\ exc' = e
    /\ escaped' = TRUE
    /\ pc' = "f_done"

\* a value is returned to the caller
ReturnValue(v) ==
    /\ returned' = Append(returned, v)
    /\ pc' = "f_done"
    /\ UNCHANGED <<exc, escaped>>

\* one call of a provider client
ClientCall(fn, query_params, resp, verbose) ==
    /\ CanCall
    /\ LET out == CASE fn = "polygon.get_from_polygon" ->
                          polygon_get_from_polygon(query_params, resp)
                     [] fn = "alpaca.get_from_alpaca" -> alpaca_get_from_alpaca(resp)
                     [] fn = "alpaca.get_from_polygon" ->
                          alpaca_get_from_polygon(resp, verbose)
       IN /\ loc' = [op |-> fn, resp |-> resp, sent |-> out.sent,
                     message |-> out.message, query_params |-> query_params,
                     verbose |-> verbose]
          /\ IF out.raised
             THEN Escape(out.exc) /\ UNCHANGED returned
             ELSE ReturnValue(out.value)
    /\ UNCHANGED <<heap, work_dict, entry, rec, res, fetched, rows, pubCalls,
                   pubFailed, events, xout, prev>>

(***************************************************************************)
(* analysis_engine/polygon/fetch_api.py fetch_tickers, step by step.       *)
(* The provider lists `count` tickers, numbered 1..count, `perPage` to a   *)
(* page; the answer for page `bad` (0 for none) lacks the 'tickers' field. *)
(* events holds the page of every request the provider received.           *)
(***************************************************************************)
\* math.ceil(a / b)
ceil_div(a, b) == (a + b - 1) \div b

\* the tickers of page p
PageRows(count, perPage, p) ==
    LET first == (p - 1) * perPage
        n == IF count - first < 0 THEN 0
             ELSE IF count - first < perPage THEN count - first ELSE perPage
    IN [i \in 1..n |-> first + i]

\* the decoded answer for page p
PageJson(count, perPage, bad, p) ==
    [page |-> p, perPage |-> perPage, count |-> count,
     tickers |-> IF p = bad THEN PyNone ELSE [list |-> PageRows(count, perPage, p)]]

PageResponse(count, perPage, bad, p) ==
    [code |-> 200, text |-> "{page}", json |-> PageJson(count, perPage, bad, p)]

TickerDicts ==
    {q @@ e : q \in Optional("locale", {QStr("us"), QObj}),
              e \in Optional("end_page", {PyInt(1), PyInt(2)})}

\* lines 124-137: the query parameters
TickersCall(locale, isNone, d, count, perPage, bad) ==
    /\ CanCall
    /\ LET q0 == DefaultTickerParams
           q1 == IF ~isNone /\ DOMAIN d # {} /\ "locale" \in DOMAIN d
                 THEN d["locale"] ELSE q0
           q2 == IF Truthy(locale) /\ setattr_ok(q1)
                 THEN [q1 EXCEPT !.locale = locale] ELSE q1
       IN /\ loc' = [op |-> "fetch_tickers", locale |-> locale,
                     end_page |-> IF isNone THEN PyNone ELSE Get(d, "end_page", PyNone),
                     count |-> count, perPage |-> perPage, bad |-> bad,
                     query_params |-> q2, max_page |-> 0, page |-> 0,
                     tickers |-> PyNone]
          /\ IF Truthy(locale) /\ ~setattr_ok(q1)
             THEN Escape("AttributeError")
             ELSE pc' = "t_first" /\ UNCHANGED <<exc, escaped>>
    /\ UNCHANGED <<heap, work_dict, entry, rec, res, fetched, rows, pubCalls,
                   pubFailed, events, returned, xout, prev>>

\* lines 147-155: the first page, the number of pages, the first tickers
TickersFirstPage ==
    /\ pc = "t_first"
    /\ LET q == loc.query_params
           p == requested_page(q)
           out == polygon_get_from_polygon(
                      q, PageResponse(loc.count, loc.perPage, loc.bad, p))
       IN IF out.raised
          THEN Escape(out.exc) /\ UNCHANGED <<loc, events>>
          ELSE /\ events' = Append(events, p)
               /\ loc' = [loc EXCEPT
                             !.max_page = ceil_div(out.value.count, out.value.perPage),
                             !.tickers = out.value.tickers,
                             !.page = 1]
               /\ pc' = "t_loop"
               /\ UNCHANGED <<exc, escaped>>
    /\ UNCHANGED <<heap, work_dict, entry, rec, res, fetched, rows, pubCalls,
                   pubFailed, returned, xout, prev>>

\* lines 157-164: one round of `for page in range(1, max_page)`
TickersNextPage ==
    /\ pc = "t_loop"
    /\ loc.page < loc.max_page
    /\ IF ~setattr_ok(loc.query_params)
       THEN Escape("AttributeError") /\ UNCHANGED <<loc, events>>
       ELSE LET q == [loc.query_params EXCEPT !.page = loc.page]
                p == requested_page(q)
                out == polygon_get_from_polygon(
                           q, PageResponse(loc.count, loc.perPage, loc.bad, p))
            IN /\ events' = Append(events, p)
               \* tickers += resp_json.get('tickers')
               /\ IF loc.tickers = PyNone \/ out.value.tickers = PyNone
                  THEN /\ Escape("TypeError")
                       /\ loc' = [loc EXCEPT !.query_params = q]
                  ELSE /\ loc' = [loc EXCEPT
                                     !.query_params = q,
                                     !.tickers = [list |-> loc.tickers.list
                                                     \o out.value.tickers.list],
                                     !.page = loc.page + 1]
                       /\ UNCHANGED <<pc, exc, escaped>>
    /\ UNCHANGED <<heap, work_dict, entry, rec, res, fetched, rows, pubCalls,
                   pubFailed, returned, xout, prev>>

\* lines 167-171: the table of the accumulated tickers
TickersReturn ==
    /\ pc = "t_loop"
    /\ loc.page >= loc.max_page
    /\ ReturnValue([df |-> IF loc.tickers = PyNone THEN <<>> ELSE loc.tickers.list])
    /\ UNCHANGED <<heap, work_dict, entry, loc, rec, res, fetched, rows,
                   pubCalls, pubFailed, events, xout, prev>>

TickersNext ==
    \/ \E locale \in {None, "us"}, d \in TickerDicts, count \in 0..MaxCount,
          perPage \in 1..MaxPerPage, bad \in 0..2 :
            TickersCall(locale, FALSE, d, count, perPage, bad)
    \/ \E locale \in {None, "us"}, count \in 0..MaxCount, perPage \in 1..MaxPerPage :
            TickersCall(locale, TRUE, EmptyDict, count, perPage, 0)
    \/ TickersFirstPage
    \/ TickersNextPage
    \/ TickersReturn

(***************************************************************************)
(* analysis_engine/polygon/fetch_api.py fetch_daily, fetch_minute and      *)
(* fetch_news. A raw table is the provider's list of rows: its field names *)
(* in the order the rows carry them and the number of rows; the cell of    *)
(* field f in row i is Raw(f, i). Epoch values are kept in units of 1000   *)
(* milliseconds.                                                           *)
(***************************************************************************)
POLYGON_DATE_FIELDS == {"calendarDate", "reportPeriod", "updated", "date",
                        "exDate", "declaredDate", "paymentDate", "recordDate"}
\* 'open.time' and 'processedTime' are one literal: the list lacks a comma
POLYGON_TIME_FIELDS == {"closeTime", "close.time", "delayedPriceTime",
                        "extendedPriceTime", "latestTime", "openTime",
                        "open.time" \o "processedTime", "t", "time",
                        "timestamp", "lastUpdated"}
POLYGON_SEC_EPOCH_FIELDS == {"datetime"}

daily_columns == <<"volume", "vwap", "open", "close", "high", "low", "date", "count">>
minute_columns == <<"volume", "vwap", "open", "close", "high", "low", "time", "count">>

\* the provider's t of row i: 1546405200000 ms and one day more per row
RawT(i) == 1546405200 + (i - 1) * 86400
Raw(f, i) == [field |-> f, row |-> i, ms1000 |-> IF f = "t" THEN RawT(i) ELSE 0]

NaT == [nat |-> TRUE]
Timestamp(day) == [day |-> day]

\* pd.to_datetime(x, unit='ms', errors='coerce') of a number
to_datetime_ms(v) == Timestamp(v.ms1000 \div 86400)

\* pd.to_datetime(x, unit='s', errors='coerce') of a number: the provider's
\* millisecond values lie beyond the last representable second
to_datetime_s(v) ==
    IF v.ms1000 > 9223372 THEN NaT ELSE Timestamp((v.ms1000 * 5) \div 432)

\* pd.to_datetime(x, format='%Y-%m-%d', errors='coerce') of a number: the
\* library either reads it as nanoseconds since the epoch or fails to
\* parse its digits, depending on its version
to_datetime_format(v, int_as_ns) ==
    IF int_as_ns THEN Timestamp((v.ms1000 \div 1000000) \div 86400) ELSE NaT

\* convert_datetime_columns on one cell of column col, lines 45-78
convert_datetime_cell(col, v, int_as_ns) ==
    LET a == IF col \in POLYGON_DATE_FIELDS THEN to_datetime_format(v, int_as_ns) ELSE v
        b == IF col \in POLYGON_SEC_EPOCH_FIELDS /\ "ms1000" \in DOMAIN a
             THEN to_datetime_s(a) ELSE a
    IN IF col \in POLYGON_TIME_FIELDS /\ "ms1000" \in DOMAIN b
       THEN to_datetime_ms(b) ELSE b

\* the calendar day, days since 1970-01-01, as '%Y-%m-%d'
DayString(day) ==
    CASE day = 0 -> "1970-01-01"
      [] day = 17896 -> "2018-12-31"
      [] day = 17897 -> "2019-01-01"
      [] day = 17898 -> "2019-01-02"
      [] day = 17899 -> "2019-01-03"
      [] day = 17900 -> "2019-01-04"
      [] day = 17901 -> "2019-01-05"
      [] OTHER -> "day" \o ToString(day)

NullDate == "NaN"
\* Series.dt.strftime: the day of a timestamp, null for NaT and for a cell
\* that was not converted
strftime(v) == IF "day" \in DOMAIN v THEN DayString(v.day) ELSE NullDate

\* pd.DataFrame(rows): no rows give a table without columns
DataFrame(cols, n) ==
    IF n = 0 THEN [columns |-> <<>>, n |-> 0]
    ELSE [columns |-> [i \in 1..Len(cols) |-> [name |-> cols[i], src |-> cols[i]]],
          n |-> n]

\* df.columns = names: the i-th column takes the i-th name
set_columns(df, names) ==
    [df EXCEPT !.columns = [i \in 1..Len(names) |->
                               [name |-> names[i], src |-> df.columns[i].src]]]

HasColumn(df, name) == \E i \in 1..Len(df.columns) : df.columns[i].name = name
ColumnSrc(df, name) ==
    df.columns[CHOOSE i \in 1..Len(df.columns) : df.columns[i].name = name].src

Table(df) == [raised |-> FALSE, exc |-> "none", df |-> df, temporal |-> <<>>]
TableError(e) == [raised |-> TRUE, exc |-> e, df |-> DataFrame(<<>>, 0), temporal |-> <<>>]

\* fetch_daily 238-266 and fetch_minute 333-361 on the decoded answer json:
\* the table, with the formatted temporal column of each row
normalize_range(kind, ticker, json, int_as_ns) ==
    LET names == IF kind = "daily" THEN daily_columns ELSE minute_columns
        tcol == IF kind = "daily" THEN "date" ELSE "time"
        found == IF kind = "daily" THEN json.key = "results" ELSE json.key = ticker
        df0 == IF found THEN DataFrame(json.cols, json.n) ELSE DataFrame(<<>>, 0)
    IN IF kind = "daily" /\ ~found THEN TableError("KeyError")
       ELSE IF Len(df0.columns) # Len(names) THEN TableError("ValueError")
       ELSE LET df == set_columns(df0, names)
            IN IF ~HasColumn(df, tcol) \/ df.n = 0 THEN Table(df)
               ELSE [Table(df) EXCEPT !.temporal =
                        [i \in 1..df.n |->
                            strftime(convert_datetime_cell(
                                tcol, Raw(ColumnSrc(df, tcol), i), int_as_ns))]]

\* fetch_news 491-521 on the decoded answer: the table is returned as it
\* is, with or without a timestamp column
normalize_news(json) == Table(DataFrame(json.cols, json.n))

\* the field order of the provider's documented answer
DocumentedOrder == <<"v", "vw", "o", "c", "h", "l", "t", "n">>
RawOrders == {DocumentedOrder,
              <<"o", "c", "h", "l", "v", "vw", "t", "n">>,
              <<"t", "v", "vw", "o", "c", "h", "l", "n">>,
              <<"v", "o", "c", "h", "l", "t", "n">>,
              <<"v", "vw", "o", "c", "h", "l", "t", "n", "a">>,
              <<"v", "vw", "o", "c", "h", "l", "n", "x">>}
NewsOrders == {<<"title", "timestamp">>, <<"title", "url">>}
RangeJsons ==
    {[key |-> k, cols |-> IF n = 0 THEN <<>> ELSE cols, n |-> n] :
        k \in {"results", "AAPL"}, cols \in RawOrders, n \in 0..MaxRows}
NewsJsons ==
    {[key |-> "list", cols |-> IF n = 0 THEN <<>> ELSE cols, n |-> n] :
        cols \in NewsOrders, n \in 0..MaxRows}

\* the part of a fetch function that follows the provider call, applied to
\* a decoded answer
Normalize(kind, ticker, json, int_as_ns) ==
    /\ CanCall
    /\ LET out == IF kind = "news" THEN normalize_news(json)
                  ELSE normalize_range(kind, ticker, json, int_as_ns)
       IN /\ loc' = [op |-> "normalize", kind |-> kind, ticker |-> ticker,
                     json |-> json, out |-> out]
          /\ IF out.raised
             THEN Escape(out.exc) /\ UNCHANGED returned
             ELSE ReturnValue([df |-> out.df])
    /\ UNCHANGED <<heap, work_dict, entry, rec, res, fetched, rows, pubCalls,
                   pubFailed, events, xout, prev>>

\* use_date of fetch_daily / fetch_minute, lines 205-219 (300-314)
range_use_date(backfill_date, isNone, d, today) ==
    LET given == ~isNone /\ DOMAIN d # {}
        u1 == IF given THEN Get(d, "use_date", None) ELSE backfill_date
        u2 == IF given /\ ~Truthy(backfill_date)
              THEN Get(d, "backfill_date", None) ELSE u1
    IN IF u2 = None THEN today ELSE u2

\* from_historical_date, lines 206-222 (301-317)
range_from(isNone, d, use_date) ==
    LET given == ~isNone /\ DOMAIN d # {}
        f == IF given /\ "from_historical_date" \in DOMAIN d
             THEN d["from_historical_date"] ELSE None
    IN IF f = None THEN use_date ELSE f

\* lines 224-225 (319-320)
range_url(ticker, timespan, from, to) ==
    "/v2/aggs/ticker/" \o ticker \o "/range/1/" \o timespan \o "/" \o from \o "/" \o to

RangeDicts ==
    {u @@ b @@ f @@ t :
        u \in Optional("use_date", {"2019-01-03"}),
        b \in Optional("backfill_date", {"2019-01-02"}),
        f \in Optional("from_historical_date", {"2019-01-01"}),
        t \in Optional("ticker", {"AAPL"})}

\* fetch_daily / fetch_minute (ticker, backfill_date, work_dict): the whole
\* function; the provider client is called without query_params
FetchRange(kind, ticker, backfill_date, isNone, d, today, resp, int_as_ns) ==
    /\ CanCall
    /\ LET given == ~isNone /\ DOMAIN d # {}
           use_ticker == IF given /\ ~Truthy(ticker) THEN Get(d, "ticker", None)
                         ELSE ticker
           use_date == range_use_date(backfill_date, isNone, d, today)
           from == range_from(isNone, d, use_date)
           timespan == IF kind = "daily" THEN "day" ELSE "minute"
           use_url == range_url(use_ticker, timespan, from, use_date)
           got == polygon_get_from_polygon(QNone, resp)
           out == IF got.raised THEN TableError(got.exc)
                  ELSE normalize_range(kind, use_ticker, got.value, int_as_ns)
       IN /\ loc' = [op |-> "fetch_range", kind |-> kind, ticker |-> use_ticker,
                     backfill_date |-> backfill_date, work_dict |-> d, today |-> today,
                     from |-> from, to |-> use_date, url |-> use_url,
                     sent |-> got.sent, explicit_from |->
                         (given /\ "from_historical_date" \in DOMAIN d)]
          /\ events' = IF got.sent THEN Append(events, use_url) ELSE events
          /\ IF out.raised
             THEN Escape(out.exc) /\ UNCHANGED returned
             ELSE ReturnValue([df |-> out.df])
    /\ UNCHANGED <<heap, work_dict, entry, rec, res, fetched, rows, pubCalls,
                   pubFailed, xout, prev>>

(***************************************************************************)
(* analysis_engine/alpaca/fetch_api.py fetch_minute                        *)
(***************************************************************************)
ALPACA_EPOCH_FIELDS == {"t", "datetime"}

alpaca_minute_columns == <<"close", "high", "low", "open", "datetime", "volume">>

\* pd.to_datetime(x, unit='ns', errors='coerce') of a number
to_datetime_ns(v) == Timestamp((v.ms1000 \div 1000000) \div 86400)

\* use_date of alpaca fetch_minute, lines 214-225
alpaca_use_date(backfill_date, isNone, d) ==
    LET given == ~isNone /\ DOMAIN d # {}
        u1 == IF given THEN Get(d, "use_date", None) ELSE backfill_date
    IN IF given /\ ~Truthy(backfill_date) THEN Get(d, "backfill_date", None) ELSE u1

\* lines 235-240
alpaca_minute_url(ticker, use_date) ==
    IF Truthy(use_date)
    THEN "bars/1Min?symbols=" \o ticker \o "&start=" \o use_date \o "T09:30:00-04:00"
    ELSE "bars/1Min?symbols=" \o ticker

\* lines 255-284 on the decoded answer
alpaca_normalize_minute(ticker, json) ==
    LET df0 == IF json.key = ticker THEN DataFrame(json.cols, json.n)
               ELSE DataFrame(<<>>, 0)
    IN IF Len(df0.columns) # Len(alpaca_minute_columns) THEN TableError("ValueError")
       ELSE LET df == set_columns(df0, alpaca_minute_columns)
            IN [Table(df) EXCEPT !.temporal =
                   [i \in 1..df.n |->
                       strftime(IF "datetime" \in ALPACA_EPOCH_FIELDS
                                THEN to_datetime_ns(Raw(ColumnSrc(df, "datetime"), i))
                                ELSE Raw(ColumnSrc(df, "datetime"), i))]]

\* the field order of the provider's bars
AlpacaBarOrder == <<"c", "h", "l", "o", "t", "v">>

\* alpaca fetch_minute(ticker, backfill_date, work_dict): the whole function
alpaca_fetch_minute(ticker, backfill_date, isNone, d, resp) ==
    /\ CanCall
    /\ LET given == ~isNone /\ DOMAIN d # {}
           use_ticker == IF given /\ ~Truthy(ticker) THEN Get(d, "ticker", None)
                         ELSE ticker
           use_date == alpaca_use_date(backfill_date, isNone, d)
           use_url == alpaca_minute_url(use_ticker, use_date)
           got == alpaca_get_from_alpaca(resp)
           out == IF got.raised THEN TableError(got.exc)
                  ELSE alpaca_normalize_minute(use_ticker, got.value)
       IN /\ loc' = [op |-> "alpaca_fetch_minute", kind |-> "minute",
                     ticker |-> use_ticker, backfill_date |-> backfill_date,
                     work_dict |-> d, to |-> use_date, url |-> use_url,
                     sent |-> got.sent]
          /\ events' = Append(events, use_url)
          /\ IF out.raised
             THEN Escape(out.exc) /\ UNCHANGED returned
             ELSE ReturnValue([df |-> out.df])
    /\ UNCHANGED <<heap, work_dict, entry, rec, res, fetched, rows, pubCalls,
                   pubFailed, xout, prev>>

RangeNext ==
    \/ \E ticker \in {None, "AAPL"}, backfill_date \in {None} \cup BackfillDates,
          d \in RangeDicts, code \in {200, 404}, n \in 0..MaxRows :
            alpaca_fetch_minute(ticker, backfill_date, FALSE, d,
                                [code |-> code, text |-> "{bars}",
                                 json |-> [key |-> "AAPL", cols |-> AlpacaBarOrder, n |-> n]])
    \/ \E backfill_date \in {None} \cup BackfillDates, code \in {200, 404} :
            alpaca_fetch_minute("AAPL", backfill_date, TRUE, EmptyDict,
                                [code |-> code, text |-> "{bars}",
                                 json |-> [key |-> "AAPL", cols |-> AlpacaBarOrder, n |-> 1]])
    \/ \E kind \in {"daily", "minute"}, json \in RangeJsons, int_as_ns \in BOOLEAN :
          Normalize(kind, "AAPL", json, int_as_ns)
    \/ \E json \in NewsJsons : Normalize("news", "AAPL", json, FALSE)
    \/ \E kind \in {"daily", "minute"}, ticker \in {None, "AAPL"},
          backfill_date \in {None} \cup BackfillDates, d \in RangeDicts,
          today \in {"2019-01-04"}, code \in {200, 404} :
            FetchRange(kind, ticker, backfill_date, FALSE, d, today,
                       [code |-> code, text |-> "{aggs}",
                        json |-> [key |-> "results", cols |-> DocumentedOrder, n |-> 1]],
                       FALSE)
    \/ \E kind \in {"daily", "minute"}, backfill_date \in {None} \cup BackfillDates,
          code \in {200, 404} :
            FetchRange(kind, "AAPL", backfill_date, TRUE, EmptyDict, "2019-01-04",
                       [code |-> code, text |-> "{aggs}",
                        json |-> [key |-> "results", cols |-> DocumentedOrder, n |-> 1]],
                       FALSE)

ClientNext ==
    \/ \E q \in ClientParams, resp \in HttpResponses, verbose \in BOOLEAN :
          ClientCall("polygon.get_from_polygon", q, resp, verbose)
    \/ \E resp \in HttpResponses, verbose \in BOOLEAN :
          ClientCall("alpaca.get_from_alpaca", QNone, resp, verbose)
    \/ \E resp \in HttpResponses, verbose \in BOOLEAN :
          ClientCall("alpaca.get_from_polygon", QNone, resp, verbose)

FetchNext == ClientNext \/ TickersNext \/ RangeNext \/ CallerContinues

FetchSpec == Init /\ [][FetchNext]_vars

FetchDone == pc = "f_done"

\* C20: a provider client that received a status other than 200 raises an
\* error whose message carries the status code and the response body, and
\* returns nothing
C20_Non200Raises ==
    (FetchDone /\ IsClient(loc.op) /\ loc.sent /\ loc.resp.code # 200)
        => /\ escaped /\ returned = <<>>
           /\ EndsWith(loc.message,
                       ToString(loc.resp.code) \o " - " \o loc.resp.text)

IsTickers == loc.op = "fetch_tickers"
\* the number of pages of the listing
PagesOf(count, perPage) == ceil_div(count, perPage)

\* C11: fetch_tickers requests the pages 1..N, N = ceil(count / perPage),
\* once each and in increasing order, and returns the tickers of these
\* pages in order
C11_ExactPages ==
    (FetchDone /\ IsTickers /\ loc.count >= 1 /\ loc.bad = 0)
        => /\ ~escaped
           /\ events = [i \in 1..PagesOf(loc.count, loc.perPage) |-> i]
           /\ returned = <<[df |-> [i \in 1..loc.count |-> i]]>>

\* C12: with end_page = E in the request, fetch_tickers sends at most E
\* page requests
C12_EndPageCaps ==
    (FetchDone /\ IsTickers /\ IsInt(loc.end_page))
        => Len(events) <= loc.end_page.int

\* C13: when the answer for a requested page lacks the tickers field,
\* fetch_tickers still returns a table, and the table holds the tickers of
\* the pages answered in full before it
C13_BadPageSkipped ==
    (FetchDone /\ IsTickers /\ \E i \in 1..Len(events) : events[i] = loc.bad)
        => /\ ~escaped
           /\ Len(returned) = 1
           /\ \A i \in 1..Len(events) :
                 (\A j \in 1..i : events[j] # loc.bad) =>
                    LET page == PageRows(loc.count, loc.perPage, events[i])
                    IN \A k \in 1..Len(page) :
                          \E m \in 1..Len(returned[1].df) :
                              returned[1].df[m] = page[k]

IsRange == loc.op = "fetch_range"
IsNormalize == loc.op = "normalize"

\* the day before a date
DayBefore(date) ==
    CASE date = "2019-01-02" -> "2019-01-01"
      [] date = "2019-01-03" -> "2019-01-02"
      [] date = "2019-01-04" -> "2019-01-03"
      [] OTHER -> "before " \o date

\* the end of the range the claim names: the backfill date, else today
ClaimedRangeEnd ==
    IF Truthy(loc.backfill_date) THEN loc.backfill_date
    ELSE Get(loc.work_dict, "backfill_date", loc.today)

\* C14: without from_historical_date the range of fetch_daily ends at the
\* backfill date (today when there is none) and starts one day before its
\* end; the range of fetch_minute starts at its end
C14_DefaultRange ==
    (FetchDone /\ IsRange /\ ~loc.explicit_from /\ "use_date" \notin DOMAIN loc.work_dict)
        => /\ loc.to = ClaimedRangeEnd
           /\ loc.from = (IF loc.kind = "daily" THEN DayBefore(ClaimedRangeEnd)
                          ELSE ClaimedRangeEnd)

\* C15: every row of the table fetch_daily makes of an answer that carries
\* t has as its date the UTC calendar day of t milliseconds
C15_DailyDateFromEpochMs ==
    (FetchDone /\ IsNormalize /\ loc.kind = "daily" /\ ~escaped
               /\ \E i \in 1..Len(loc.json.cols) : loc.json.cols[i] = "t")
        => /\ Len(loc.out.temporal) = loc.json.n
           /\ \A i \in 1..loc.json.n :
                 loc.out.temporal[i] = DayString(RawT(i) \div 86400)

\* the canonical name of a provider field
CanonicalName(kind, f) ==
    CASE f = "v" -> "volume" [] f = "vw" -> "vwap" [] f = "o" -> "open"
      [] f = "c" -> "close" [] f = "h" -> "high" [] f = "l" -> "low"
      [] f = "n" -> "count"
      [] f = "t" -> (IF kind = "daily" THEN "date" ELSE "time")
      [] OTHER -> f

\* the answer holds its rows under the key the function reads
RowsFound ==
    /\ loc.json.n >= 1
    /\ loc.json.key = (IF loc.kind = "daily" THEN "results" ELSE loc.ticker)

\* C16: whatever the order and number of the fields of the answer,
\* fetch_daily and fetch_minute return a table in which every provider field
\* is found under its canonical name and every other field under its own
C16_RenameByName ==
    (FetchDone /\ IsNormalize /\ loc.kind \in {"daily", "minute"} /\ RowsFound)
        => /\ ~escaped
           /\ \A i \in 1..Len(loc.json.cols) :
                 LET f == loc.json.cols[i] IN
                 /\ HasColumn(loc.out.df, CanonicalName(loc.kind, f))
                 /\ ColumnSrc(loc.out.df, CanonicalName(loc.kind, f)) = f

\* C17: a news request whose provider answer decodes to a table of one or
\* more rows without the timestamp column ends with status ERR; no
\* exception leaves the call
C17_MissingTemporalIsErr ==
    (Done /\ fetched = "ok" /\ loc.kind = "news" /\ rows > 0 /\ ~loc.temporal)
        => (~escaped /\ Result.status = ERR)

\* query_params is absent, or a dictionary of name/value pairs
IsAbsentOrDict(q) == q.type \in {"NoneType", "dict"}

\* C21: a provider client whose request the provider answers with status
\* 200 returns the decoded body, whatever the verbose flag, with
\* query_params absent or a dictionary
C21_OkReturnsBody ==
    (FetchDone /\ IsClient(loc.op) /\ loc.resp.code = 200
               /\ IsAbsentOrDict(loc.query_params))
        => (~escaped /\ returned = <<loc.resp.json>>)

ExtractDone == pc = "x_done"

\* C23: every extract_<kind>_dataset wrapper passes a key of the keys table
\* and so reaches perform_extract; none of them returns None
C23_WrappersReachExtract ==
    \A w \in Wrappers :
        (ExtractDone /\ loc.key = wrapper_key(w))
            => (wrapper_key(w) \in DOMAIN keys /\ xout.performed)

\* s starts with prefix
StartsWith(s, prefix) ==
    /\ Len(s) >= Len(prefix)
    /\ SubSeq(s, 1, Len(prefix)) = prefix

\* C30: the ticker component of the keys extract_dataset derives is not
\* empty (nor the text of None) and is the 'ticker' field of the request
\* handed to perform_extract
C30_ExtractTickerInKey ==
    (ExtractDone /\ xout.performed) =>
        LET req == heap[xout.work_dict] IN
        /\ Truthy(loc.ticker)
        /\ "ticker" \in DOMAIN req
        /\ StartsWith(req["redis_key"], req["ticker"] \o "_")
        /\ StartsWith(req["s3_key"], req["ticker"] \o "_")

\* the place of an event in a request
Rank(e) == CASE e = "validate" -> 1 [] e = "fetch" -> 2 [] e = "publish" -> 3

\* C24: the events of a request occur in the order validate, provider
\* fetch, publish, none of them twice and none before the validation; a
\* request for an unsupported kind ends with status ERR after the validation
\* alone, without provider fetch and without publish call
C24_ValidateFetchPublish ==
    /\ \A i, j \in 1..Len(events) : i < j => Rank(events[i]) < Rank(events[j])
    /\ Len(events) >= 1 => events[1] = "validate"
    /\ (Done /\ work_dict # NoRef /\ ~KindSupported(RequestedFtType))
          => (events = <<"validate">> /\ pubCalls = <<>> /\ Result.status = ERR)

C24_Witness ==
    /\ Done /\ events = <<"validate", "fetch", "publish">>
    /\ Len(pubCalls) = 1 /\ fetched = "raised"

\* key k ends in the name of a kind, news under either of its two names
NamesKind(k, kind) ==
    EndsWith(k, "_" \o kind) \/ EndsWith(k, "_" \o use_field(kind))

\* C25: whenever the orchestrator writes a kind suffix on a key (the caller
\* gave the key, or gave a backfill date and the provider was called), the
\* suffix of the redis_key and of the s3_key handed to the publisher names
\* the kind selected by ft_type, whatever field is and also when field is
\* absent
C25_KeySuffixIsFetchedKind ==
    \A i \in 1..Len(pubCalls) : \A k \in {"redis_key", "s3_key"} :
        (k \in DOMAIN entry \/ (Truthy(loc.backfill_date) /\ fetched # "skipped"))
            => NamesKind(pubCalls[i][k], loc.kind)

IsAlpacaMinute == loc.op = "alpaca_fetch_minute"

\* C27: when fetch_daily, fetch_minute or alpaca fetch_minute is given a
\* backfill_date argument and a work_dict, the date of the request URL is
\* the backfill_date argument, whether work_dict carries use_date or not
C27_ExplicitBackfillWins ==
    (FetchDone /\ (IsRange \/ IsAlpacaMinute) /\ Truthy(loc.backfill_date)
               /\ DOMAIN loc.work_dict # {})
        => /\ loc.to = loc.backfill_date
           /\ IF IsRange THEN EndsWith(loc.url, "/" \o loc.backfill_date)
              ELSE loc.url = alpaca_minute_url(loc.ticker, loc.backfill_date)

\* the polygon registry names the kind of ft_type
Registered(ft_type) == ~StartsWith(polygon_get_ft_str(ft_type), Unsupported)

\* C28: the orchestrator builds a request for exactly the kinds the polygon
\* registry names: a request whose ft_type the registry knows is not
\* rejected as unsupported, and one it does not know is
C28_DispatchCoversRegistry ==
    (Done /\ work_dict # NoRef)
        => ((loc.kind # Unsupported) <=> Registered(RequestedFtType))

\* C29: a request for a supported kind whose work_dict carries 'from' as
\* 'YYYY-MM-DD HH:MM:SS' still calls the provider, and the table of a
\* successful provider call is returned in rec.data
C29_FromKeepsFetch ==
    (Done /\ work_dict # NoRef /\ KindSupported(RequestedFtType)
          /\ "from" \in DOMAIN entry /\ entry["from"] \in Timestamps)
        => /\ \E i \in 1..Len(events) : events[i] = "fetch"
           /\ fetched \in {"ok", "raised"}
           /\ fetched = "ok" => Result.rec.data = to_json(rows)

(***************************************************************************)
(* Two calls of get_data_from_polygon running concurrently, each with its  *)
(* own request dictionary. The heap is common to both calls; the           *)
(* variables of the call hold the frame of the call that is running and    *)
(* prev holds the frame of the suspended one.                              *)
(***************************************************************************)
\* the request dictionaries of the concurrent calls
ConcDicts ==
    {[ticker |-> "AAPL", ft_type |-> PyInt(polygon_FETCH_DAILY),
      redis_key |-> "AAPL_2019-01-03", s3_key |-> "AAPL_2019-01-03"],
     [ticker |-> "MSFT", ft_type |-> PyStr("news"), field |-> "news",
      backfill_date |-> "2019-01-02", label |-> "news-task"],
     [ticker |-> "AAPL", ft_type |-> PyInt(polygon_FETCH_TICKERS)]}

ConcResponses == {r \in Responses : r.temporal /\ r.rows \in {0, 1}}

\* the frame of the running call
Frame ==
    [pc |-> pc, work_dict |-> work_dict, entry |-> entry, loc |-> loc,
     rec |-> rec, res |-> res, exc |-> exc, escaped |-> escaped,
     fetched |-> fetched, rows |-> rows, pubCalls |-> pubCalls,
     pubFailed |-> pubFailed, events |-> events, returned |-> returned]

\* the frame of a call at its entry, as Call makes it
EntryFrame(ref, d) ==
    [pc |-> "validate", work_dict |-> ref, entry |-> d,
     loc |-> [op |-> "get_data_from_polygon", label |-> "get_data_from_polygon"],
     rec |-> [data |-> None, updated |-> None],
     res |-> [status |-> NOT_RUN, err |-> None],
     exc |-> "none", escaped |-> FALSE, fetched |-> "none", rows |-> 0,
     pubCalls |-> <<>>, pubFailed |-> FALSE, events |-> <<>>, returned |-> <<>>]

\* the call whose frame is f runs
Resume(f) ==
    /\ pc' = f.pc
    /\ work_dict' = f.work_dict
    /\ entry' = f.entry
    /\ loc' = f.loc
    /\ rec' = f.rec
    /\ res' = f.res
    /\ exc' = f.exc
    /\ escaped' = f.escaped
    /\ fetched' = f.fetched
    /\ rows' = f.rows
    /\ pubCalls' = f.pubCalls
    /\ pubFailed' = f.pubFailed
    /\ events' = f.events
    /\ returned' = f.returned

Suspended == "parked" \in DOMAIN prev

\* two callers call get_data_from_polygon at the same time, each with a
\* dictionary of its own
Spawn(d1, d2) ==
    /\ CanCall
    /\ ~Suspended
    /\ heap' = ("wd" :> d1) @@ (ObjectName("wd", 2) :> d2)
    /\ Resume(EntryFrame("wd", d1))
    /\ prev' = [set |-> FALSE, self |-> 1,
                parked |-> EntryFrame(ObjectName("wd", 2), d2)]
    /\ xout' = NoOut

\* the running call is suspended and the other one goes on
Switch ==
    /\ Suspended
    /\ prev.parked.pc # "done"
    /\ Resume(prev.parked)
    /\ prev' = [prev EXCEPT !.self = 3 - prev.self, !.parked = Frame]
    /\ UNCHANGED <<heap, xout>>

\* both calls have returned
Join ==
    /\ Suspended
    /\ pc = "done" /\ prev.parked.pc = "done"
    /\ pc' = "idle"
    /\ heap' = EmptyDict
    /\ work_dict' = NoRef
    /\ entry' = EmptyDict
    /\ loc' = NoLocals
    /\ rec' = [data |-> None, updated |-> None]
    /\ res' = [status |-> NOT_RUN, err |-> None]
    /\ exc' = "none"
    /\ escaped' = FALSE
    /\ fetched' = "none"
    /\ rows' = 0
    /\ pubCalls' = <<>>
    /\ pubFailed' = FALSE
    /\ events' = <<>>
    /\ returned' = <<>>
    /\ xout' = NoOut
    /\ prev' = NoPrev

ConcNext ==
    \/ \E d1, d2 \in ConcDicts : Spawn(d1, d2)
    \/ Switch
    \/ Validate
    \/ CloneKeys
    \/ PrepareFetch
    \/ \E resp \in ConcResponses : FetchData(resp)
    \/ BuildUpload
    \/ \E fails \in BOOLEAN : Publish(fails)
    \/ BuildResult
    \/ HandleException
    \/ Return
    \/ Join

ConcSpec == Init /\ [][ConcNext]_vars

\* get_data_from_polygon(d) run from entry to return with nothing else
\* running: what it returns and what it hands to the publisher, given the
\* outcome of its provider call (a table of n rows, or a failure) and
\* whether its publish call fails
Alone(d, outcome, n, fails) ==
    LET ticker == Get(d, "ticker", TICKER)
        field == Get(d, "field", "daily")
        label == Get(d, "label", "get_data_from_polygon")
        backfill_date == Get(d, "backfill_date", None)
        kind == DispatchKind(Get(d, "ft_type", PyNone))
        cloned == CloneLoop(Put(build_polygon_fetch_request(kind, label), "ticker", ticker),
                            d, label, Len(clone_keys))
        from_raises == "from" \in DOMAIN d /\ ~strptime_ok(TICK_FORMAT, d["from"])
        with_from == IF "from" \in DOMAIN d THEN Put(cloned, "from", d["from"]) ELSE cloned
        key == BackfillKey(ticker, backfill_date, field)
        polygon_req == IF from_raises THEN cloned
                       ELSE IF Truthy(backfill_date)
                       THEN Put(Put(Put(with_from, "backfill_date", backfill_date),
                                    "redis_key", key), "s3_key", key)
                       ELSE with_from
        ok == ~from_raises /\ outcome = "ok"
        data == IF ok THEN to_json(n) ELSE None
        base(k) == IF Truthy(backfill_date) THEN ticker \o "_" \o backfill_date
                   ELSE d[k]
        u0 == Put(Put(polygon_req, "celery_disabled", "True"),
                  "data", IF Truthy(data) THEN data ELSE "{}")
        u1 == IF "redis_key" \in DOMAIN d
              THEN Put(u0, "redis_key", base("redis_key") \o "_" \o use_field(field))
              ELSE u0
        upload_and_cache_req ==
              IF "s3_key" \in DOMAIN d
              THEN Put(u1, "s3_key", base("s3_key") \o "_" \o use_field(field))
              ELSE u1
    IN IF kind = Unsupported
       THEN [returned |-> <<[status |-> ERR,
                             err |-> "failed - get_data_from_polygon with ex="
                                         \o "NotImplementedError",
                             rec |-> [data |-> None, updated |-> None]]>>,
             published |-> <<>>]
       ELSE [returned |-> <<[status |-> SUCCESS, err |-> None,
                             rec |-> [data |-> data,
                                      updated |-> IF ok THEN "utcnow" ELSE None]]>>,
             published |-> <<upload_and_cache_req>>]

\* the objects a frame refers to
ObjectsOf(f) ==
    {f.work_dict}
        \cup (IF "polygon_req" \in DOMAIN f.loc /\ f.loc.polygon_req # None
              THEN {f.loc.polygon_req} ELSE {})
        \cup (IF "upload_and_cache_req" \in DOMAIN f.loc
              THEN {f.loc.upload_and_cache_req} ELSE {})

\* C22: of two concurrent calls with request dictionaries of their own,
\* neither refers to an object of the other, and each returns the result
\* and hands the publisher the request that it returns and hands over when
\* it runs alone
C22_ConcurrentCallsIndependent ==
    /\ Suspended => ObjectsOf(Frame) \cap ObjectsOf(prev.parked) = {}
    /\ (Done /\ work_dict # NoRef) =>
          /\ returned = Alone(entry, fetched, rows, pubFailed).returned
          /\ pubCalls = Alone(entry, fetched, rows, pubFailed).published

C22_Witness ==
    /\ Suspended /\ Done /\ prev.parked.pc = "done"
    /\ prev.parked.entry # entry
    /\ Len(pubCalls) = 1 /\ Len(prev.parked.pubCalls) = 1
    /\ pubCalls # prev.parked.pubCalls
    /\ prev.parked.events = <<"validate", "fetch", "publish">>
    /\ returned = Alone(entry, fetched, rows, pubFailed).returned

====
